---- MODULE Spec2Model ----
(***************************************************************************)
(* Zipline: the upload endpoint (POST, whole and chunked uploads, naming,  *)
(* expiry, per-user cooldown) and the file management endpoint             *)
(* (GET / DELETE / PATCH on the caller's files), as state machines over    *)
(* the metadata store, the blob store and the transient chunk directory.   *)
(* Node runs one handler at a time: requests interleave at the awaits of   *)
(* a handler, and the code between two awaits runs without interruption.   *)
(***************************************************************************)
EXTENDS Integers, Sequences, FiniteSets, TLC

(* ------------------------------ bounds -------------------------------- *)
\* request slots of a run (each slot carries one request)
MaxReqs == 3
\* the clock stops ticking here (seconds)
MaxTime == 3

(* ------------------------- optional values ---------------------------- *)
\* JS null / undefined / absent header is <<>>, a present value v is <<v>>
Null == <<>>
Some(v) == <<v>>
IsNull(m) == m = <<>>
Val(m) == m[1]

(* ------------------------------ users --------------------------------- *)
Users == {"root", "alice"}
Administrator(u) == u = "root"
Token(u) == "token-" \o u
\* prisma.user.findFirst({ where: { token } })
FindUserByToken(tok) == {u \in Users : Token(u) = tok}

(* --------------------------- configuration ---------------------------- *)
\* RATELIMIT_ADMIN and RATELIMIT_USER of the example environment (seconds)
RatelimitAdmin == 3
RatelimitUser == 5
\* UPLOADER_DISABLED_EXTENSIONS
DisabledExtensions == {"someext"}
\* the keys of the FileNameFormat enum
FileNameFormat == {"RANDOM", "DATE", "UUID", "NAME"}
\* JS false, the value of `includes(rawFormat) && ...` for an unknown format
NoFormat == "false"

(* ------------------------------ strings ------------------------------- *)
\* String.prototype.toUpperCase on the header values of the model
ToUpperCase(s) ==
  CASE s = "random" -> "RANDOM"
    [] s = "date" -> "DATE"
    [] s = "uuid" -> "UUID"
    [] s = "name" -> "NAME"
    [] s = "foo" -> "FOO"
    [] OTHER -> s

\* A file name "a.b.c" is the sequence of its dot-separated parts <<a,b,c>>;
\* the empty string is <<"">>, as ''.split('.') is [''].
EmptyName == <<"">>
\* originalname.split('.').length === 1 ? '' : originalname.split('.').pop()
ExtOf(parts) == IF Len(parts) = 1 THEN "" ELSE parts[Len(parts)]
\* originalname.split('.')[0]
StemOf(parts) == parts[1]
\* a naming that drops the extension (a variant of StoredName)
StoredName_NoExt(fileName, ext, compressionUsed) == fileName

\* `${fileName}${compressionUsed ? '.jpg' : `${ext ? '.' : ''}${ext}`}`
StoredName(fileName, ext, compressionUsed) ==
  IF compressionUsed THEN fileName \o <<"jpg">>
  ELSE IF ext # "" THEN fileName \o <<ext>>
  ELSE fileName

\* randomChars(zconfig.uploader.length): one of the names it can draw
RandomChars == {<<"aaaaaa">>, <<"bbbbbb">>}
\* randomUUID()
RandomUUID == {<<"uuid-1">>, <<"uuid-2">>}
\* dayjs().format(zconfig.uploader.format_date)
DateName(t) == <<"date-" \o ToString(t)>>

\* parseExpiry of lib/utils/client: the instant a parseable string denotes,
\* nothing for an unparseable one
ParseExpiry(s) ==
  CASE s = "date=T7" -> Some(7)
    [] s = "date=T9" -> Some(9)
    [] OTHER -> Null

(* ------------------------------ buffers ------------------------------- *)
\* sharp(buffer).jpeg({ quality }).toBuffer()
Jpeg(buf, quality) == [enc |-> "jpeg", q |-> quality, bytes |-> buf]
Raw(buf) == [enc |-> "raw", q |-> 0, bytes |-> buf]
\* mimetype.startsWith('image/')
IsImage(mimetype) == mimetype[1] = "image"
\* /^(video|audio|image|text)/.test(mimetype), on the major type
IsMedia(mimetype) == mimetype[1] \in {"video", "audio", "image", "text"}

(* ------------------------------- state -------------------------------- *)
VARIABLES
  now,        \* Date.now(), in seconds
  zconfig,    \* the loaded configuration (never changes in a run)
  ratelimit,  \* metadata store: User.ratelimit of every user
  files,      \* metadata store: the File Records
  nextId,     \* metadata store: the autoincrement id of File
  invisible,  \* metadata store: the Invisible File Mappings
  blobs,      \* blob store: stored name -> bytes
  tmp,        \* tmpdir(): chunk file name -> bytes
  pc,         \* where each request is in its handler
  hdr,        \* each request as received (headers, body, files)
  loc,        \* each request's local variables
  out         \* each request's response

vars == <<now, zconfig, ratelimit, files, nextId, invisible, blobs, tmp, pc, hdr, loc, out>>
store == <<ratelimit, files, nextId, invisible, blobs, tmp>>

Reqs == 1 .. MaxReqs + 1

\* a function with key k set to v (k may be new)
Put(f, k, v) == [x \in DOMAIN f \cup {k} |-> IF x = k THEN v ELSE f[x]]
\* a function with key k removed
Drop(f, k) == [x \in DOMAIN f \ {k} |-> f[x]]

NoHdr ==
  [endpoint |-> "none", authorization |-> Null, expiresAt |-> Null, format |-> Null,
   compression |-> Null, maxViews |-> Null, contentRange |-> Null,
   partialFilename |-> EmptyName, partialMimetype |-> <<"", "">>,
   identifier |-> <<>>, lastchunk |-> FALSE, xfilename |-> Null, zws |-> FALSE,
   uploadtext |-> FALSE, files |-> <<>>,
   method |-> "POST", user |-> "", all |-> FALSE, id |-> Null, favorite |-> Null,
   qfavorite |-> FALSE, qfilter |-> Null,
   after |-> {}]  \* bookkeeping: the requests answered before this one arrived

NoLoc ==
  [user |-> "", administrator |-> FALSE, ratelimit |-> Null, expiry |-> Null,
   format |-> NoFormat, compression |-> Null, maxViews |-> Null, i |-> 1,
   fileName |-> EmptyName, ext |-> "", file |-> Null, invis |-> Null,
   readChunks |-> <<>>, chunks |-> <<>>, k |-> 1, buffer |-> <<>>,
   found |-> <<>>, j |-> 1]

\* remaining is the wait res.ratelimited reports; cooldown is bookkeeping: the
\* cooldown a finished batch wrote for its user
NoOut == [status |-> "none", msg |-> "", files |-> <<>>, expiresAt |-> Null,
          remaining |-> Null, cooldown |-> Null, count |-> Null]

\* the configuration of the example environment, with upload limits of 2 bytes
\* and the given default expiry and default format
Config(defaultExpiration, defaultFormat) ==
  [default_expiration |-> defaultExpiration, default_format |-> defaultFormat,
   disabled_extensions |-> DisabledExtensions,
   admin_limit |-> 2, user_limit |-> 2,
   ratelimit_admin |-> RatelimitAdmin, ratelimit_user |-> RatelimitUser]

\* the state after start-up: empty stores, no request received
InitStore ==
  /\ now = 0
  /\ ratelimit = [u \in Users |-> Null]
  /\ files = {}
  /\ nextId = 1
  /\ invisible = {}
  /\ blobs = <<>>
  /\ tmp = <<>>
  /\ pc = [r \in Reqs |-> "idle"]
  /\ hdr = [r \in Reqs |-> NoHdr]
  /\ loc = [r \in Reqs |-> NoLoc]
  /\ out = [r \in Reqs |-> NoOut]

Goto(r, l) == pc' = [pc EXCEPT ![r] = l]
\* res.json / res.badRequest / res.forbidden / res.ratelimited / a thrown error:
\* the handler returns and its locals are gone
Reply(r, status, msg) ==
  /\ pc' = [pc EXCEPT ![r] = "done"]
  /\ out' = [out EXCEPT ![r].status = status, ![r].msg = msg]
  /\ loc' = [loc EXCEPT ![r] = NoLoc]

\* Request r is in the middle of a stretch of code with no await in it: the
\* rate-limit check follows the validation, the response URL follows the blob
\* write, and the next file follows unless it starts with the awaited lookup of
\* the explicit name.
Sync(r) ==
  \/ pc[r] \in {"ratelimit", "url", "curl"}
  \/ /\ pc[r] = "file"
     /\ ~(loc[r].format = NoFormat /\ ~IsNull(hdr[r].xfilename))
\* the event loop can run the next step of request r
Turn(r) == \A q \in Reqs \ {r} : ~Sync(q)
\* the event loop is between two handlers
Free == \A q \in Reqs : ~Sync(q)

\* a request arrives in the next free slot
Arrive(r, h) ==
  /\ pc[r] = "idle"
  /\ Free
  /\ \A q \in Reqs : q < r => pc[q] # "idle"
  /\ hdr' = [hdr EXCEPT ![r] = h]
  /\ pc' = [pc EXCEPT ![r] = IF h.endpoint = "upload" THEN "auth" ELSE "manage"]
  /\ UNCHANGED <<now, zconfig, store, loc, out>>

\* the clock advances
Tick ==
  /\ Free
  /\ now < MaxTime
  /\ now' = now + 1
  /\ UNCHANGED <<zconfig, store, pc, hdr, loc, out>>

(* ===================== the upload endpoint (POST) ====================== *)

\* Number(header) on the header values of the model; nan is NaN
NumberOf(s) ==
  CASE s = "0" -> [nan |-> FALSE, v |-> 0]
    [] s = "50" -> [nan |-> FALSE, v |-> 50]
    [] s = "100" -> [nan |-> FALSE, v |-> 100]
    [] s = "101" -> [nan |-> FALSE, v |-> 101]
    [] s = "-1" -> [nan |-> FALSE, v |-> 0 - 1]
    [] s = "3" -> [nan |-> FALSE, v |-> 3]
    [] OTHER -> [nan |-> TRUE, v |-> 0]

\* header ? Number(header) : null
OptNumber(h) == IF IsNull(h) \/ h = Some("") THEN Null ELSE Some(NumberOf(Val(h)))

\* ((req.headers.format || '') as string).toUpperCase() || zconfig.uploader.default_format
RawFormat(h, cfg) ==
  LET up == ToUpperCase(IF IsNull(h.format) THEN "" ELSE Val(h.format))
  IN IF up # "" THEN up ELSE cfg.default_format

\* Object.keys(FileNameFormat).includes(rawFormat) && FileNameFormat[rawFormat]
FormatOf(rawFormat) == IF rawFormat \in FileNameFormat THEN rawFormat ELSE NoFormat

\* expiry after the expires-at header and the configured default were looked at;
\* [bad |-> message] when one of them does not parse
ExpiryOf(h, cfg) ==
  LET fromHeader == IF IsNull(h.expiresAt) THEN Null ELSE ParseExpiry(Val(h.expiresAt))
      fromDefault == IF IsNull(cfg.default_expiration) THEN Null
                     ELSE ParseExpiry(Val(cfg.default_expiration))
  IN IF ~IsNull(h.expiresAt) /\ IsNull(fromHeader)
       THEN [bad |-> "invalid date", expiry |-> Null, response |-> Null]
     ELSE IF ~IsNull(cfg.default_expiration) /\ IsNull(fromDefault)
       THEN [bad |-> "invalid date (UPLOADER_DEFAULT_EXPIRATION)", expiry |-> Null,
             response |-> Null]
     ELSE [bad |-> "",
           expiry |-> IF ~IsNull(cfg.default_expiration) THEN fromDefault ELSE fromHeader,
           response |-> fromHeader]

\* imageCompressionPercent && mimetype.startsWith('image/')
CompressionUsed(compression, mimetype) ==
  /\ ~IsNull(compression)
  /\ Val(compression).v # 0
  /\ IsImage(mimetype)

\* lines 23-38: the authorization header and the user it names (then the body is
\* awaited)
ReadUser(r) ==
  /\ pc[r] = "auth"
  /\ Turn(r)
  /\ LET h == hdr[r]
         found == IF IsNull(h.authorization) THEN {}
                  ELSE FindUserByToken(Val(h.authorization))
     IN IF IsNull(h.authorization)
          THEN Reply(r, "forbidden", "no authorization")
        ELSE IF found = {}
          THEN Reply(r, "forbidden", "authorization incorrect")
        ELSE \E u \in found :
               /\ loc' = [loc EXCEPT ![r].user = u,
                                     ![r].administrator = Administrator(u),
                                     ![r].ratelimit = ratelimit[u]]
               /\ Goto(r, "parse")
               /\ UNCHANGED out
  /\ UNCHANGED <<now, zconfig, store, hdr>>

\* lines 40-73: the headers are validated, and the request
\* goes to the partial-upload branch or on to the rate limit
Validate(r) ==
  /\ pc[r] = "parse"
  /\ Turn(r)
  /\ LET h == hdr[r]
         e == ExpiryOf(h, zconfig)
         compression == OptNumber(h.compression)
         maxViews == OptNumber(h.maxViews)
     IN IF e.bad # ""
          THEN Reply(r, "badRequest", e.bad)
        ELSE IF ~IsNull(compression) /\ Val(compression).nan
          THEN Reply(r, "badRequest", "invalid image compression percent (invalid number)")
        ELSE IF ~IsNull(compression) /\ (Val(compression).v < 0 \/ Val(compression).v > 100)
          THEN Reply(r, "badRequest", "invalid image compression percent (% < 0 || % > 100)")
        ELSE IF ~IsNull(maxViews) /\ Val(maxViews).nan
          THEN Reply(r, "badRequest", "invalid max views (invalid number)")
        ELSE IF ~IsNull(maxViews) /\ Val(maxViews).v < 0
          THEN Reply(r, "badRequest", "invalid max views (max views < 0)")
        ELSE /\ loc' = [loc EXCEPT ![r].expiry = e.expiry,
                                   ![r].format = FormatOf(RawFormat(h, zconfig)),
                                   ![r].compression = compression,
                                   ![r].maxViews = maxViews]
             /\ pc' = [pc EXCEPT ![r] = IF IsNull(h.contentRange) THEN "ratelimit"
                                        ELSE "writeChunk"]
             /\ out' = [out EXCEPT ![r].expiresAt = e.response]
  /\ UNCHANGED <<now, zconfig, store, hdr>>

\* remaining < 0 (a variant of Expired)
Expired_Strict(remaining) == remaining < 0

\* remaining <= 0, the test of line 209
Expired(remaining) == remaining <= 0

\* a rate limit that clears the cooldown also when it rejects (a variant of RateLimit)
RateLimit_ClearsOnReject(r) ==
  /\ pc[r] = "ratelimit"
  /\ Turn(r)
  /\ LET u == loc[r].user
         limited == ~IsNull(loc[r].ratelimit)
         remaining == IF limited THEN Val(loc[r].ratelimit) - now ELSE 0
     IN /\ ratelimit' = IF limited THEN [ratelimit EXCEPT ![u] = Null] ELSE ratelimit
        /\ IF limited /\ ~Expired(remaining)
             THEN /\ pc' = [pc EXCEPT ![r] = "done"]
                  /\ out' = [out EXCEPT ![r].status = "ratelimited",
                                        ![r].remaining = Some(remaining)]
                  /\ loc' = [loc EXCEPT ![r] = NoLoc]
           ELSE IF Len(hdr[r].files) = 0
             THEN Reply(r, "badRequest", "no files")
             ELSE Goto(r, "file") /\ UNCHANGED <<loc, out>>
  /\ UNCHANGED <<now, zconfig, files, nextId, invisible, blobs, tmp, hdr>>

\* lines 206-224: the rate limit of a whole upload, then the empty-batch test
RateLimit(r) ==
  /\ pc[r] = "ratelimit"
  /\ Turn(r)
  /\ LET u == loc[r].user
         limited == ~IsNull(loc[r].ratelimit)
         remaining == IF limited THEN Val(loc[r].ratelimit) - now ELSE 0
     IN IF limited /\ ~Expired(remaining)
          THEN /\ pc' = [pc EXCEPT ![r] = "done"]
               /\ out' = [out EXCEPT ![r].status = "ratelimited",
                                     ![r].remaining = Some(remaining)]
               /\ loc' = [loc EXCEPT ![r] = NoLoc]
               /\ UNCHANGED ratelimit
        ELSE /\ ratelimit' = IF limited THEN [ratelimit EXCEPT ![u] = Null] ELSE ratelimit
             /\ IF Len(hdr[r].files) = 0
                  THEN Reply(r, "badRequest", "no files")
                  ELSE Goto(r, "file") /\ UNCHANGED <<loc, out>>
  /\ UNCHANGED <<now, zconfig, files, nextId, invisible, blobs, tmp, hdr>>

\* prisma.file.findFirst({ where: { name } })
FindFirstByName(name) == {f \in files : f.name = name}

\* the names the naming switch of lines 249-276 can give file `file`;
\* conflict is the explicit name found in the store
Naming(format, originalname, xfilename) ==
  CASE format = "RANDOM" -> [names |-> RandomChars, conflict |-> FALSE]
    [] format = "DATE" -> [names |-> {DateName(now)}, conflict |-> FALSE]
    [] format = "UUID" -> [names |-> RandomUUID, conflict |-> FALSE]
    [] format = "NAME" -> [names |-> {<<StemOf(originalname)>>}, conflict |-> FALSE]
    [] OTHER -> IF ~IsNull(xfilename)
                  THEN [names |-> {Val(xfilename)},
                        conflict |-> FindFirstByName(Val(xfilename)) # {}]
                  ELSE [names |-> RandomChars, conflict |-> FALSE]

\* lines 238-281: the loop head, then size, file name, extension and naming of file i
FileBegin(r) ==
  /\ pc[r] = "file"
  /\ Turn(r)
  /\ LET h == hdr[r]
         i == loc[r].i
     IN IF i > Len(h.files)
          THEN Goto(r, "cooldown") /\ UNCHANGED <<loc, out>>
        ELSE
          LET file == h.files[i]
              limit == IF loc[r].administrator THEN zconfig.admin_limit
                       ELSE zconfig.user_limit
              ext == ExtOf(file.originalname)
              n == Naming(loc[r].format, file.originalname, h.xfilename)
          IN IF Len(file.buffer) > limit
               THEN Reply(r, "badRequest", "size too big")
             ELSE IF file.originalname = EmptyName
               THEN Reply(r, "badRequest", "no filename")
             ELSE IF ext \in zconfig.disabled_extensions
               THEN Reply(r, "badRequest", "disabled extension recieved")
             ELSE IF n.conflict
               THEN Reply(r, "badRequest", "filename already exists")
             ELSE \E fileName \in n.names :
                    /\ loc' = [loc EXCEPT ![r].fileName = fileName, ![r].ext = ext]
                    /\ Goto(r, "create")
                    /\ UNCHANGED out
  /\ UNCHANGED <<now, zconfig, store, hdr>>

\* the File Record prisma.file.create returns
NewFile(r, name, mimetype, kind) ==
  [id |-> nextId, name |-> name, mimetype |-> mimetype, userId |-> loc[r].user,
   format |-> loc[r].format, expiresAt |-> loc[r].expiry, favorite |-> FALSE,
   req |-> r, kind |-> kind]

\* lines 283-297: prisma.file.create for file i of a whole upload
FileCreate(r) ==
  /\ pc[r] = "create"
  /\ Turn(r)
  /\ LET file == hdr[r].files[loc[r].i]
         used == CompressionUsed(loc[r].compression, file.mimetype)
         rec == NewFile(r, StoredName(loc[r].fileName, loc[r].ext, used),
                        IF hdr[r].uploadtext THEN <<"text", "plain">>
                        ELSE IF used THEN <<"image", "jpeg">> ELSE file.mimetype,
                        "whole")
     IN /\ files' = files \cup {rec}
        /\ nextId' = nextId + 1
        /\ loc' = [loc EXCEPT ![r].file = Some(rec), ![r].invis = Null]
        /\ Goto(r, IF hdr[r].zws THEN "invis" ELSE "save")
  /\ UNCHANGED <<now, zconfig, ratelimit, invisible, blobs, tmp, hdr, out>>

\* the obfuscated code createInvisImage binds to a File Record
InvisCode(fileId) == "zws-" \o ToString(fileId)

\* a mapping step that goes on to the URL without the blob write (a variant of FileInvis)
FileInvis_ThenUrl(r) ==
  /\ pc[r] \in {"invis", "cinvis"}
  /\ Turn(r)
  /\ LET code == InvisCode(Val(loc[r].file).id)
     IN /\ invisible' = invisible \cup {[invis |-> code, fileId |-> Val(loc[r].file).id]}
        /\ loc' = [loc EXCEPT ![r].invis = Some(code)]
  /\ Goto(r, IF pc[r] = "invis" THEN "url" ELSE "curl")
  /\ UNCHANGED <<now, zconfig, ratelimit, files, nextId, blobs, tmp, hdr, out>>

\* line 299 (and 169): createInvisImage(length, file.id)
FileInvis(r) ==
  /\ pc[r] \in {"invis", "cinvis"}
  /\ Turn(r)
  /\ LET code == InvisCode(Val(loc[r].file).id)
     IN /\ invisible' = invisible \cup {[invis |-> code, fileId |-> Val(loc[r].file).id]}
        /\ loc' = [loc EXCEPT ![r].invis = Some(code)]
  /\ Goto(r, IF pc[r] = "invis" THEN "save" ELSE "csave")
  /\ UNCHANGED <<now, zconfig, ratelimit, files, nextId, blobs, tmp, hdr, out>>

\* lines 301-309: datasource.save of the (possibly transcoded) bytes
FileSave(r) ==
  /\ pc[r] = "save"
  /\ Turn(r)
  /\ LET file == hdr[r].files[loc[r].i]
         used == CompressionUsed(loc[r].compression, file.mimetype)
         bytes == IF used THEN Jpeg(file.buffer, Val(loc[r].compression).v)
                  ELSE Raw(file.buffer)
     IN blobs' = Put(blobs, Val(loc[r].file).name, bytes)
  /\ Goto(r, "url")
  /\ UNCHANGED <<now, zconfig, ratelimit, files, nextId, invisible, tmp, hdr, loc, out>>

\* the last segment of responseUrl: invis ? invis.invis : file.name
UrlSegment(r) ==
  IF ~IsNull(loc[r].invis) THEN [invis |-> Val(loc[r].invis)]
  ELSE [name |-> Val(loc[r].file).name]

\* lines 311-336: the response URL of file i, then the next file
FileUrl(r) ==
  /\ pc[r] = "url"
  /\ Turn(r)
  /\ out' = [out EXCEPT ![r].files = Append(@, UrlSegment(r))]
  /\ loc' = [loc EXCEPT ![r].i = @ + 1]
  /\ Goto(r, "file")
  /\ UNCHANGED <<now, zconfig, store, hdr>>

\* the cooldown lines 338-358 write for the user of a finished batch, if any
CooldownAfterBatch(administrator, cfg, t) ==
  IF administrator /\ cfg.ratelimit_admin > 0
    THEN Some(Some(t + cfg.ratelimit_admin))
  ELSE IF ~administrator /\ cfg.ratelimit_user > 0
    THEN IF administrator /\ cfg.ratelimit_user > 0
           THEN Some(Some(t + cfg.ratelimit_user))
           ELSE Null
  ELSE Null

\* lines 338-365: the cooldown of the user is set and the batch is answered
Cooldown(r) ==
  /\ pc[r] = "cooldown"
  /\ Turn(r)
  /\ LET set == CooldownAfterBatch(loc[r].administrator, zconfig, now)
     IN /\ ratelimit' = IF IsNull(set) THEN ratelimit
                        ELSE [ratelimit EXCEPT ![loc[r].user] = Val(set)]
        /\ out' = [out EXCEPT ![r].status = "ok",
                              ![r].cooldown = IF IsNull(set) THEN Null ELSE Val(set)]
  /\ pc' = [pc EXCEPT ![r] = "done"]
  /\ loc' = [loc EXCEPT ![r] = NoLoc]
  /\ UNCHANGED <<now, zconfig, files, nextId, invisible, blobs, tmp, hdr>>

(* ================== the partial-upload branch (lines 72-204) =========== *)

\* A chunk file name is the sequence of its characters, the words zipline and
\* partial being one character each.
DigitChars == <<"0", "1", "2", "3", "4", "5", "6", "7", "8", "9">>
IsDigit(c) == \E d \in 1 .. Len(DigitChars) : DigitChars[d] = c
DigitVal(c) == (CHOOSE d \in 1 .. Len(DigitChars) : DigitChars[d] = c) - 1

\* `${n}` for a number n >= 0
RECURSIVE NumToStr(_)
NumToStr(n) == IF n < Len(DigitChars) THEN <<DigitChars[n + 1]>>
               ELSE NumToStr(n \div Len(DigitChars)) \o <<DigitChars[(n % Len(DigitChars)) + 1]>>

\* Number(str): '' is 0, a run of digits its value, anything else NaN (Null)
RECURSIVE DigitsValue(_, _)
DigitsValue(str, acc) ==
  IF str = <<>> THEN acc
  ELSE DigitsValue(Tail(str), acc * Len(DigitChars) + DigitVal(Head(str)))
StrToNum(str) ==
  IF \A k \in 1 .. Len(str) : IsDigit(str[k]) THEN Some(DigitsValue(str, 0)) ELSE Null

\* str.split('_')
RECURSIVE SplitFrom(_, _, _)
SplitFrom(str, field, acc) ==
  IF str = <<>> THEN Append(acc, field)
  ELSE IF Head(str) = "_" THEN SplitFrom(Tail(str), <<>>, Append(acc, field))
  ELSE SplitFrom(Tail(str), Append(field, Head(str)), acc)
Split(str) == SplitFrom(str, <<>>, <<>>)

\* str.startsWith(prefix)
StartsWith(str, prefix) ==
  Len(prefix) <= Len(str) /\ SubSeq(str, 1, Len(prefix)) = prefix

\* `zipline_partial_${identifier}`
PartialPrefix(identifier) == <<"zipline", "_", "partial", "_">> \o identifier
\* an entry name without the range (a variant of TempFile)
TempFile_NoRange(identifier, start, end) == PartialPrefix(identifier)

\* `zipline_partial_${identifier}_${start}_${end}`
TempFile(identifier, start, end) ==
  PartialPrefix(identifier) \o <<"_">> \o NumToStr(start) \o <<"_">> \o NumToStr(end)

\* lines 107-110: const [, , , start, end] = x.split('_'), as numbers
ReadChunkOf(x) ==
  LET fields == Split(x)
      num(k) == IF k <= Len(fields) THEN StrToNum(fields[k]) ELSE Null
  IN [start |-> num(4), end |-> num(5), filename |-> x]

\* the orders readdir can list a set of entries in
Listings(S) ==
  {l \in [1 .. Cardinality(S) -> S] : \A a, b \in 1 .. Cardinality(S) : a # b => l[a] # l[b]}

\* new Uint8Array(total)
Zeros(total) == [k \in 1 .. total |-> 0]
\* the offset chunks.set(buffer, start) writes at: NaN counts as 0
OffsetOf(start) == IF IsNull(start) THEN 0 ELSE Val(start)
\* chunks.set(buffer, start) throws a RangeError when the buffer does not fit
Fits(chunks, buffer, start) == OffsetOf(start) + Len(buffer) <= Len(chunks)
SetAt(chunks, buffer, start) ==
  [k \in 1 .. Len(chunks) |->
     IF k > OffsetOf(start) /\ k <= OffsetOf(start) + Len(buffer)
       THEN buffer[k - OffsetOf(start)] ELSE chunks[k]]

\* lines 75-100 and 201-203: the chunk is written to tmpdir(); a chunk that is not
\* the last one is acknowledged
WriteChunk(r) ==
  /\ pc[r] = "writeChunk"
  /\ Turn(r)
  /\ LET h == hdr[r]
         range == Val(h.contentRange)
     IN IF Len(h.files) = 0
          THEN Reply(r, "error", "req.files[0] is undefined") /\ UNCHANGED tmp
        ELSE /\ tmp' = Put(tmp, TempFile(h.identifier, range.start, range.end),
                            h.files[1].buffer)
             /\ IF h.lastchunk THEN Goto(r, "list") /\ UNCHANGED <<loc, out>>
                ELSE Reply(r, "ack", "success")
  /\ UNCHANGED <<now, zconfig, ratelimit, files, nextId, invisible, blobs, hdr>>

\* lines 103-113: the entries of tmpdir() that start with the session's prefix,
\* parsed back into ranges, and the zero-filled buffer
ListPartials(r) ==
  /\ pc[r] = "list"
  /\ Turn(r)
  /\ LET partials == {x \in DOMAIN tmp : StartsWith(x, PartialPrefix(hdr[r].identifier))}
     IN \E l \in Listings(partials) :
          loc' = [loc EXCEPT ![r].readChunks = [k \in 1 .. Len(l) |-> ReadChunkOf(l[k])],
                             ![r].chunks = Zeros(Val(hdr[r].contentRange).total),
                             ![r].k = 1]
  /\ Goto(r, IF \E x \in DOMAIN tmp : StartsWith(x, PartialPrefix(hdr[r].identifier))
              THEN "readChunk" ELSE "chunkCreate")
  /\ UNCHANGED <<now, zconfig, store, hdr, out>>

\* line 118: readFile of chunk k (it throws when the entry is gone)
ReadChunk(r) ==
  /\ pc[r] = "readChunk"
  /\ Turn(r)
  /\ LET name == loc[r].readChunks[loc[r].k].filename
     IN IF name \in DOMAIN tmp
          THEN /\ loc' = [loc EXCEPT ![r].buffer = tmp[name]]
               /\ Goto(r, "unlinkChunk")
               /\ UNCHANGED out
          ELSE Reply(r, "error", "ENOENT")
  /\ UNCHANGED <<now, zconfig, store, hdr>>

\* lines 119-122: unlink of chunk k, its bytes copied at its offset, the next chunk
UnlinkChunk(r) ==
  /\ pc[r] = "unlinkChunk"
  /\ Turn(r)
  /\ LET chunkData == loc[r].readChunks[loc[r].k]
     IN IF chunkData.filename \notin DOMAIN tmp
          THEN Reply(r, "error", "ENOENT") /\ UNCHANGED tmp
        ELSE /\ tmp' = Drop(tmp, chunkData.filename)
             /\ IF ~Fits(loc[r].chunks, loc[r].buffer, chunkData.start)
                  THEN Reply(r, "error", "RangeError")
                  ELSE /\ loc' = [loc EXCEPT
                                    ![r].chunks = SetAt(@, loc[r].buffer, chunkData.start),
                                    ![r].k = @ + 1]
                       /\ Goto(r, IF loc[r].k = Len(loc[r].readChunks) THEN "chunkCreate"
                                  ELSE "readChunk")
                       /\ UNCHANGED out
  /\ UNCHANGED <<now, zconfig, ratelimit, files, nextId, invisible, blobs, hdr>>

\* the names the naming switch of lines 129-145 can give the assembled file
PartialNaming(format, filename) ==
  CASE format = "RANDOM" -> RandomChars
    [] format = "DATE" -> {DateName(now)}
    [] format = "UUID" -> RandomUUID
    [] format = "NAME" -> {<<StemOf(filename)>>}
    [] OTHER -> RandomChars

\* lines 124-167: extension check, naming and prisma.file.create of the assembled file
ChunkCreate(r) ==
  /\ pc[r] = "chunkCreate"
  /\ Turn(r)
  /\ LET h == hdr[r]
         ext == ExtOf(h.partialFilename)
         used == CompressionUsed(loc[r].compression, h.partialMimetype)
     IN IF ext \in zconfig.disabled_extensions
          THEN Reply(r, "error", "disabled extension recieved")
               /\ UNCHANGED <<files, nextId>>
        ELSE \E fileName \in PartialNaming(loc[r].format, h.partialFilename) :
               LET rec == NewFile(r, StoredName(fileName, ext, used), h.partialMimetype,
                                  "chunked")
               IN /\ files' = files \cup {rec}
                  /\ nextId' = nextId + 1
                  /\ loc' = [loc EXCEPT ![r].file = Some(rec), ![r].invis = Null,
                                        ![r].fileName = fileName, ![r].ext = ext]
                  /\ Goto(r, IF h.zws THEN "cinvis" ELSE "csave")
                  /\ UNCHANGED out
  /\ UNCHANGED <<now, zconfig, ratelimit, invisible, blobs, tmp, hdr>>

\* line 171: datasource.save(file.name, Buffer.from(chunks))
ChunkSave(r) ==
  /\ pc[r] = "csave"
  /\ Turn(r)
  /\ blobs' = Put(blobs, Val(loc[r].file).name, Raw(loc[r].chunks))
  /\ Goto(r, "curl")
  /\ UNCHANGED <<now, zconfig, ratelimit, files, nextId, invisible, tmp, hdr, loc, out>>

\* lines 173-198: the response of the last chunk
ChunkUrl(r) ==
  /\ pc[r] = "curl"
  /\ Turn(r)
  /\ pc' = [pc EXCEPT ![r] = "done"]
  /\ out' = [out EXCEPT ![r].status = "ok", ![r].files = Append(@, UrlSegment(r))]
  /\ loc' = [loc EXCEPT ![r] = NoLoc]
  /\ UNCHANGED <<now, zconfig, store, hdr>>

(* ============ the file management endpoint (files.ts) ================== *)

\* a request of authenticated user u (withZipline resolves the user)
ManageRequest(u, method) == [NoHdr EXCEPT !.endpoint = "files", !.method = method, !.user = u]

\* prisma.file.findMany({ where: { userId } })
FilesOfUser(u) == {f \in files : f.userId = u}
\* prisma.file.delete / update({ where: { id } }): the record with that id
FileById(id) == {f \in files : f.id = id}

\* a set of records as an array, newest first (orderBy createdAt desc; records are
\* created in the order of their ids)
RECURSIVE NewestFirst(_)
NewestFirst(S) ==
  IF S = {} THEN <<>>
  ELSE LET newest == CHOOSE f \in S : \A g \in S : g.id <= f.id
       IN <<newest>> \o NewestFirst(S \ {newest})

\* lines 12-17: DELETE with body.all, the caller's records are read
DeleteAllFind(r) ==
  /\ pc[r] = "manage"
  /\ Turn(r)
  /\ hdr[r].method = "DELETE" /\ hdr[r].all
  /\ loc' = [loc EXCEPT ![r].user = hdr[r].user,
                        ![r].found = NewestFirst(FilesOfUser(hdr[r].user)),
                        ![r].j = 1]
  /\ Goto(r, IF FilesOfUser(hdr[r].user) = {} THEN "deleteMany" ELSE "deleteBlob")
  /\ UNCHANGED <<now, zconfig, store, hdr, out>>

\* lines 19-21: datasource.delete of the j-th record's blob
DeleteAllBlob(r) ==
  /\ pc[r] = "deleteBlob"
  /\ Turn(r)
  /\ blobs' = Drop(blobs, loc[r].found[loc[r].j].name)
  /\ loc' = [loc EXCEPT ![r].j = @ + 1]
  /\ Goto(r, IF loc[r].j = Len(loc[r].found) THEN "deleteMany" ELSE "deleteBlob")
  /\ UNCHANGED <<now, zconfig, ratelimit, files, nextId, invisible, tmp, hdr, out>>

\* lines 23-30: prisma.file.deleteMany of the caller's records, and the count
DeleteAllMany(r) ==
  /\ pc[r] = "deleteMany"
  /\ Turn(r)
  /\ files' = files \ FilesOfUser(loc[r].user)
  /\ pc' = [pc EXCEPT ![r] = "done"]
  /\ out' = [out EXCEPT ![r].status = "ok",
                        ![r].count = Some(Cardinality(FilesOfUser(loc[r].user)))]
  /\ loc' = [loc EXCEPT ![r] = NoLoc]
  /\ UNCHANGED <<now, zconfig, ratelimit, nextId, invisible, blobs, tmp, hdr>>

\* lines 32-38: DELETE of one file, prisma.file.delete({ where: { id } })
DeleteOne(r) ==
  /\ pc[r] = "manage"
  /\ Turn(r)
  /\ hdr[r].method = "DELETE" /\ ~hdr[r].all
  /\ IF IsNull(hdr[r].id)
       THEN Reply(r, "badRequest", "no file id") /\ UNCHANGED files
     ELSE IF FileById(Val(hdr[r].id)) = {}
       THEN Reply(r, "error", "record to delete does not exist") /\ UNCHANGED files
     ELSE \E f \in FileById(Val(hdr[r].id)) :
            /\ files' = files \ {f}
            /\ loc' = [loc EXCEPT ![r].user = hdr[r].user, ![r].file = Some(f)]
            /\ Goto(r, "deleteOneBlob")
            /\ UNCHANGED out
  /\ UNCHANGED <<now, zconfig, ratelimit, nextId, invisible, blobs, tmp, hdr>>

\* lines 40-45: datasource.delete of the deleted record's blob, and the record
DeleteOneBlob(r) ==
  /\ pc[r] = "deleteOneBlob"
  /\ Turn(r)
  /\ blobs' = Drop(blobs, Val(loc[r].file).name)
  /\ pc' = [pc EXCEPT ![r] = "done"]
  /\ out' = [out EXCEPT ![r].status = "ok", ![r].files = <<Val(loc[r].file)>>]
  /\ loc' = [loc EXCEPT ![r] = NoLoc]
  /\ UNCHANGED <<now, zconfig, ratelimit, files, nextId, invisible, tmp, hdr>>

\* lines 47-61: PATCH, prisma.file.update({ where: { id }, data: { favorite } })
Patch(r) ==
  /\ pc[r] = "manage"
  /\ Turn(r)
  /\ hdr[r].method = "PATCH"
  /\ IF IsNull(hdr[r].id)
       THEN Reply(r, "badRequest", "no file id") /\ UNCHANGED files
     ELSE IF IsNull(hdr[r].favorite)
       THEN Reply(r, "error", "image is undefined") /\ UNCHANGED files
     ELSE IF FileById(Val(hdr[r].id)) = {}
       THEN Reply(r, "error", "record to update does not exist") /\ UNCHANGED files
     ELSE \E f \in FileById(Val(hdr[r].id)) :
            LET image == [f EXCEPT !.favorite = Val(hdr[r].favorite)]
            IN /\ files' = (files \ {f}) \cup {image}
               /\ pc' = [pc EXCEPT ![r] = "done"]
               /\ out' = [out EXCEPT ![r].status = "ok", ![r].files = <<image>>]
               /\ loc' = [loc EXCEPT ![r] = NoLoc]
  /\ UNCHANGED <<now, zconfig, ratelimit, nextId, invisible, blobs, tmp, hdr>>

\* formatRootUrl(config.uploader.route, name)
FormatRootUrl(name) == [route |-> "/u", name |-> name]

\* lines 72-75: where: { userId: user.id, favorite: !!req.query.favorite }
ListWhere(f, u, qfavorite) == f.userId = u /\ f.favorite = qfavorite

\* lines 62-100: the entries GET answers with
Listing(u, qfavorite, qfilter) ==
  LET found == NewestFirst({f \in files : ListWhere(f, u, qfavorite)})
      entry(f) == [id |-> f.id, name |-> f.name, mimetype |-> f.mimetype,
                   favorite |-> f.favorite, expiresAt |-> f.expiresAt,
                   url |-> FormatRootUrl(f.name)]
      entries == [k \in 1 .. Len(found) |-> entry(found[k])]
      media(x) == IsMedia(x.mimetype)
  IN IF qfilter = Some("media") THEN SelectSeq(entries, media) ELSE entries

\* lines 62-100: GET
Get(r) ==
  /\ pc[r] = "manage"
  /\ Turn(r)
  /\ hdr[r].method = "GET"
  /\ pc' = [pc EXCEPT ![r] = "done"]
  /\ out' = [out EXCEPT ![r].status = "ok",
                        ![r].files = Listing(hdr[r].user, hdr[r].qfavorite, hdr[r].qfilter)]
  /\ loc' = [loc EXCEPT ![r] = NoLoc]
  /\ UNCHANGED <<now, zconfig, store, hdr>>

(* ============================ requests ================================ *)

\* one file of a multipart body
File(originalname, mimetype, buffer) ==
  [originalname |-> originalname, mimetype |-> mimetype, buffer |-> buffer]

\* a whole upload of user u
WholeUpload(u, fs) ==
  [NoHdr EXCEPT !.endpoint = "upload", !.authorization = Some(Token(u)), !.files = fs]

\* chunk [start, end] of total bytes of session `identifier`, sent by user u
ChunkUpload(u, identifier, start, end, total, buffer, last) ==
  [NoHdr EXCEPT !.endpoint = "upload", !.authorization = Some(Token(u)),
                !.contentRange = Some([start |-> start, end |-> end, total |-> total]),
                !.identifier = identifier, !.lastchunk = last,
                !.partialFilename = <<"video", "mp4">>,
                !.partialMimetype = <<"video", "mp4">>,
                !.files = <<File(<<"blob">>, <<"application", "octet-stream">>, buffer)>>]

IsWhole(r) == hdr[r].endpoint = "upload" /\ IsNull(hdr[r].contentRange)
IsChunked(r) == hdr[r].endpoint = "upload" /\ ~IsNull(hdr[r].contentRange)

(* ============ naming and expiry of whole uploads (SpecNaming) ========== *)

NamingFiles == {File(<<"readme">>, <<"text", "plain">>, <<1>>),
                File(<<"a", "pdf">>, <<"application", "pdf">>, <<2>>)}

ArriveNaming(r) ==
  \E f \in NamingFiles, e \in {Null, Some("date=T7")},
     fmt \in {Null, Some("name"), Some("foo")}, x \in {Null, Some(<<"report">>)} :
    Arrive(r, [WholeUpload("alice", <<f>>) EXCEPT !.expiresAt = e, !.format = fmt,
                                                   !.xfilename = x])

InitNaming ==
  /\ InitStore
  /\ zconfig \in {Config(d, f) : d \in {Null, Some("date=T9")}, f \in {"RANDOM", "NAME"}}

NextNaming ==
  \/ \E r \in 1 .. MaxReqs - 1 : ArriveNaming(r)
  \/ \E r \in Reqs : ReadUser(r)
  \/ \E r \in Reqs : Validate(r)
  \/ \E r \in Reqs : RateLimit(r)
  \/ \E r \in Reqs : FileBegin(r)
  \/ \E r \in Reqs : FileCreate(r)
  \/ \E r \in Reqs : FileSave(r)
  \/ \E r \in Reqs : FileUrl(r)
  \/ \E r \in Reqs : Cooldown(r)

SpecNaming == InitNaming /\ [][NextNaming]_vars

\* the request that created File Record f, and the file of its batch f came from
Origin(f) == hdr[f.req]
OriginFile(f) == hdr[f.req].files[1]

\* the EXPLICIT strategy applied to request r: no format matched and a name was supplied
IsExplicit(r) == IsWhole(r) /\ loc[r].format = NoFormat /\ ~IsNull(hdr[r].xfilename)

\* C7: two whole uploads that supply the same explicit target name never both
\* create a File Record: one succeeds and the other fails with NameConflict, so no
\* two File Records carry the same stored name from that explicit name.
\* (Stated for files without an extension, where the stored name is the explicit
\* name itself and the lookup of lines 265-270 finds an earlier record.)
C7_ExplicitNameExclusive ==
  \A f, g \in files :
    ( /\ f.id # g.id
      /\ IsExplicit(f.req) /\ IsExplicit(g.req)
      /\ Origin(f).xfilename = Origin(g).xfilename
      /\ ExtOf(OriginFile(f).originalname) = ""
      /\ ExtOf(OriginFile(g).originalname) = "" )
    => f.name # g.name

\* C8: the expiry of a File Record is the instant parsed from the expires-at
\* header whenever the request carries a parseable one, whether or not a default
\* expiry is configured; the configured default is used only without the header.
C8_HeaderExpiryWins ==
  \A f \in files :
    IF ~IsNull(Origin(f).expiresAt)
      THEN f.expiresAt = ParseExpiry(Val(Origin(f).expiresAt))
      ELSE f.expiresAt = (IF IsNull(zconfig.default_expiration) THEN Null
                          ELSE ParseExpiry(Val(zconfig.default_expiration)))

\* the file name strategy `format` gives a file called originalname
NamedBy(format, name, originalname) ==
  CASE format = "NAME" -> name = StoredName(<<StemOf(originalname)>>, ExtOf(originalname), FALSE)
    [] format = "RANDOM" -> \E c \in RandomChars : name = StoredName(c, ExtOf(originalname), FALSE)
    [] OTHER -> TRUE

\* C9: an absent format header, and a format header that uppercased is none of
\* RANDOM, DATE, UUID, NAME, both resolve to the configured default format: it
\* names the file and it is the format tag of the File Record.
C9_UnmatchedFormatIsDefault ==
  \A f \in files :
    LET h == Origin(f)
        up == ToUpperCase(IF IsNull(h.format) THEN "" ELSE Val(h.format))
    IN up \notin FileNameFormat =>
         /\ f.format = zconfig.default_format
         /\ NamedBy(zconfig.default_format, f.name, OriginFile(f).originalname)

(* =============== the per-user cooldown (SpecCooldown) ================== *)

ArriveCooldown(r) ==
  \/ \E u \in Users :
       Arrive(r, WholeUpload(u, <<File(<<"a", "pdf">>, <<"application", "pdf">>, <<1>>)>>))
  \/ Arrive(r, ChunkUpload("root", <<"s">>, 0, 0, 2, <<1>>, FALSE))

InitCooldown == InitStore /\ zconfig = Config(Null, "NAME")

StepCooldown ==
  \/ \E r \in Reqs : ReadUser(r)
  \/ \E r \in Reqs : Validate(r)
  \/ \E r \in Reqs : RateLimit(r)
  \/ \E r \in Reqs : FileBegin(r)
  \/ \E r \in Reqs : FileCreate(r)
  \/ \E r \in Reqs : FileSave(r)
  \/ \E r \in Reqs : FileUrl(r)
  \/ \E r \in Reqs : Cooldown(r)
  \/ \E r \in Reqs : WriteChunk(r)
  \/ Tick

NextCooldown == (\E r \in 1 .. MaxReqs : ArriveCooldown(r)) \/ StepCooldown
SpecCooldown == InitCooldown /\ [][NextCooldown]_vars

\* uploads of the administrator alone, whole and chunked
ArriveLimit(r) ==
  \/ Arrive(r, WholeUpload("root", <<File(<<"a", "pdf">>, <<"application", "pdf">>, <<1>>)>>))
  \/ Arrive(r, ChunkUpload("root", <<"s">>, 0, 0, 2, <<1>>, FALSE))

NextLimit == (\E r \in 1 .. MaxReqs : ArriveLimit(r)) \/ StepCooldown
SpecLimit == InitCooldown /\ [][NextLimit]_vars

\* whole uploads of the administrator, one more of them: a batch that races with
\* two others
ArriveRace(r) ==
  Arrive(r, [WholeUpload("root", <<File(<<"a", "pdf">>, <<"application", "pdf">>, <<1>>)>>)
               EXCEPT !.after = {q \in Reqs : pc[q] = "done"}])

NextCooldownRace ==
  \/ \E r \in 1 .. MaxReqs + 1 : ArriveRace(r)
  \/ \E r \in Reqs : ReadUser(r)
  \/ \E r \in Reqs : Validate(r)
  \/ \E r \in Reqs : RateLimit(r)
  \/ \E r \in Reqs : FileBegin(r)
  \/ \E r \in Reqs : FileCreate(r)
  \/ \E r \in Reqs : FileSave(r)
  \/ \E r \in Reqs : FileUrl(r)
  \/ \E r \in Reqs : Cooldown(r)
  \/ Tick

SpecCooldownRace == InitCooldown /\ [][NextCooldownRace]_vars

\* the user a request authenticates as
UserOf(r) ==
  LET found == IF IsNull(hdr[r].authorization) THEN {}
               ELSE FindUserByToken(Val(hdr[r].authorization))
  IN IF found = {} THEN "" ELSE CHOOSE u \in found : TRUE

\* the request is past the place of the rate-limit check and was not turned away
PastCheck(r) == pc[r] \in {"file", "create", "invis", "save", "url", "cooldown"}
InPartialBranch(r) ==
  pc[r] \in {"writeChunk", "list", "readChunk", "unlinkChunk", "chunkCreate", "cinvis",
             "csave", "curl"}

\* C2: when a non-administrator's non-chunked batch has succeeded and the
\* configured user cooldown is > 0, the step that ends the batch sets the user's
\* cooldown to now + userCooldown.
C2_UserCooldownSet ==
  [][\A r \in Reqs :
       ( /\ pc[r] = "cooldown" /\ pc'[r] = "done"
         /\ ~Administrator(loc[r].user)
         /\ zconfig.ratelimit_user > 0 )
       => ratelimit'[loc[r].user] = Some(now + zconfig.ratelimit_user)]_vars

\* C3: once an administrator's successful non-chunked batch has set the cooldown
\* to T, every non-chunked request of that administrator that arrives afterwards
\* and gets to the rate-limit check before T is rejected with RateLimited; and a
\* user has a cooldown only from a batch of their own.
C3_AdminCooldownRejects ==
  /\ \A r1, r2 \in Reqs :
       ( /\ r1 \in hdr[r2].after
         /\ IsWhole(r1) /\ IsWhole(r2)
         /\ Administrator(UserOf(r1)) /\ UserOf(r2) = UserOf(r1)
         /\ out[r1].status = "ok" /\ ~IsNull(out[r1].cooldown)
         /\ now < Val(out[r1].cooldown) )
       => ~PastCheck(r2) /\ out[r2].status \in {"none", "ratelimited"}
  /\ \A u \in Users :
       ~IsNull(ratelimit[u]) =>
         \E r \in Reqs : IsWhole(r) /\ UserOf(r) = u /\ out[r].status = "ok"

\* C4 as claimed: no upload request, whole or chunked, of a user whose cooldown
\* it read as T is let past the rate limit before T.
C4_AnyUploadRateLimited ==
  \A r \in Reqs :
    (PastCheck(r) \/ InPartialBranch(r)) /\ ~IsNull(loc[r].ratelimit)
      => now >= Val(loc[r].ratelimit)

\* C4 as amended: a whole upload that read the cooldown T is let past the
\* rate-limit check only at or after T, it is turned away with RateLimited only
\* before T (the reported wait is positive), and a chunked upload is never turned
\* away with RateLimited.
C4_WholeUploadRateLimited ==
  \A r \in Reqs :
    /\ PastCheck(r) /\ ~IsNull(loc[r].ratelimit) => now >= Val(loc[r].ratelimit)
    /\ out[r].status = "ratelimited" => IsWhole(r) /\ Val(out[r].remaining) > 0

\* a whole upload was turned away inside the window and a later one of the same
\* user, which read the same kind of cooldown, was let through after it
C4_Witness ==
  \E r1, r2 \in Reqs :
    /\ r1 # r2 /\ UserOf(r1) = UserOf(r2)
    /\ out[r1].status = "ratelimited"
    /\ PastCheck(r2) /\ ~IsNull(loc[r2].ratelimit)

(* ========= deleting and marking files of two users (SpecFiles) ========= *)

ArriveFiles(r) ==
  \/ \E u \in Users :
       Arrive(r, WholeUpload(u, <<File(<<"a", "png">>, <<"image", "png">>, <<1>>)>>))
  \/ \E u \in Users, all \in BOOLEAN, id \in {Null, Some(1)} :
       Arrive(r, [ManageRequest(u, "DELETE") EXCEPT !.all = all, !.id = id])
  \/ \E u \in Users, id \in {Null, Some(1)}, fav \in {Null, Some(TRUE)} :
       Arrive(r, [ManageRequest(u, "PATCH") EXCEPT !.id = id, !.favorite = fav])
  \/ \E u \in Users, qfavorite \in BOOLEAN, qfilter \in {Null, Some("media")} :
       Arrive(r, [ManageRequest(u, "GET") EXCEPT !.qfavorite = qfavorite,
                                                 !.qfilter = qfilter])

NextFiles ==
  \/ \E r \in 1 .. MaxReqs : ArriveFiles(r)
  \/ \E r \in Reqs : ReadUser(r)
  \/ \E r \in Reqs : Validate(r)
  \/ \E r \in Reqs : RateLimit(r)
  \/ \E r \in Reqs : FileBegin(r)
  \/ \E r \in Reqs : FileCreate(r)
  \/ \E r \in Reqs : FileSave(r)
  \/ \E r \in Reqs : FileUrl(r)
  \/ \E r \in Reqs : Cooldown(r)
  \/ \E r \in Reqs : DeleteAllFind(r)
  \/ \E r \in Reqs : DeleteAllBlob(r)
  \/ \E r \in Reqs : DeleteAllMany(r)
  \/ \E r \in Reqs : DeleteOne(r)
  \/ \E r \in Reqs : DeleteOneBlob(r)
  \/ \E r \in Reqs : Patch(r)
  \/ \E r \in Reqs : Get(r)

SpecFiles == InitCooldown /\ [][NextFiles]_vars

\* C1: the file management endpoint works on the caller's own records only: no
\* step of a DELETE (by id or all) or PATCH request of user U removes a File Record
\* of another user V, removes the blob of one, or changes the favorite flag of one.
C1_OwnRecordsOnly ==
  [][\A r \in Reqs :
       (hdr[r].endpoint = "files" /\ pc'[r] # pc[r]) =>
         \A f \in files :
           f.userId # hdr[r].user =>
             /\ \E g \in files' : g = f
             /\ f.name \in DOMAIN blobs => f.name \in DOMAIN blobs']_vars

\* the ids of the entries of a listing
IdsOf(entries) == {entries[k].id : k \in 1 .. Len(entries)}

\* C10: a GET of the file management endpoint with no favorite and no filter
\* query answers with every File Record the caller owns at that moment, favorite
\* or not, and none of another user; a GET with a favorite or filter=media query
\* answers with a subset of the caller's records.
C10_GetListsCallersFiles ==
  [][\A r \in Reqs :
       (hdr[r].endpoint = "files" /\ hdr[r].method = "GET"
          /\ pc[r] = "manage" /\ pc'[r] = "done") =>
         IF ~hdr[r].qfavorite /\ IsNull(hdr[r].qfilter)
           THEN IdsOf(out'[r].files) = {f.id : f \in FilesOfUser(hdr[r].user)}
           ELSE IdsOf(out'[r].files) \subseteq {f.id : f \in FilesOfUser(hdr[r].user)}]_vars

(* ============== chunked upload sessions (SpecChunk) ==================== *)

\* two sessions of alice, the identifier of the first a prefix of the second's
SessionS == <<"s">>
SessionT == <<"s", "t">>
\* the bytes session S uploads, in two chunks of one byte
OriginalS == <<1, 2>>
OriginalT == <<3, 4>>

\* chunk number n (0 or 1) of a session with the given bytes, the one covering the
\* end of the range carrying the last-chunk flag
ChunkOf(identifier, original, n) ==
  [ChunkUpload("alice", identifier, n, n, Len(original), <<original[n + 1]>>,
               n + 1 = Len(original))
     EXCEPT !.partialFilename = <<identifier[Len(identifier)], "mp4">>]

ArriveChunk(r) ==
  \E n \in {0, 1} :
    \/ Arrive(r, [ChunkOf(SessionS, OriginalS, n)
                    EXCEPT !.after = {q \in Reqs : pc[q] = "done"}])
    \/ Arrive(r, ChunkOf(SessionT, OriginalT, n))

NextChunk ==
  \/ \E r \in 1 .. MaxReqs : ArriveChunk(r)
  \/ \E r \in Reqs : ReadUser(r)
  \/ \E r \in Reqs : Validate(r)
  \/ \E r \in Reqs : WriteChunk(r)
  \/ \E r \in Reqs : ListPartials(r)
  \/ \E r \in Reqs : ReadChunk(r)
  \/ \E r \in Reqs : UnlinkChunk(r)
  \/ \E r \in Reqs : ChunkCreate(r)
  \/ \E r \in Reqs : ChunkSave(r)
  \/ \E r \in Reqs : ChunkUrl(r)

SpecChunk == InitCooldown /\ [][NextChunk]_vars

\* the requests that carry chunk n of a session
ChunkReqs(identifier, n) ==
  {r \in Reqs : IsChunked(r) /\ hdr[r].identifier = identifier
                  /\ Val(hdr[r].contentRange).start = n}
\* the File Records created for a session
SessionFiles(identifier) ==
  {f \in files : f.kind = "chunked" /\ hdr[f.req].identifier = identifier}
\* the transient entries written for a session
SessionEntries(identifier) ==
  {x \in DOMAIN tmp : \E n \in {0, 1} : x = TempFile(identifier, n, n)}

\* C5: session S alone, each of its two chunks sent once, the chunk covering the
\* end of the range flagged last: in whatever order the two requests arrived, once
\* both have been answered the object stored for the session is the original bytes.
C5_ReassemblyAnyOrder ==
  ( /\ \A r \in Reqs : pc[r] # "idle" => hdr[r].identifier = SessionS
    /\ \A n \in {0, 1} :
         /\ Cardinality(ChunkReqs(SessionS, n)) = 1
         /\ \A r \in ChunkReqs(SessionS, n) : pc[r] = "done" )
  => \E f \in SessionFiles(SessionS) :
       f.name \in DOMAIN blobs /\ blobs[f.name].bytes = OriginalS

\* C6: the chunks of session S are sent one after the other in range order, the
\* second flagged last: when the second is answered with success the stored blob is
\* the concatenation of the two payloads, exactly one File Record exists for the
\* session, and no transient entry of the session is left.
C6_SequentialSession ==
  [][\A r1, r2 \in Reqs :
       ( /\ ChunkReqs(SessionS, 0) = {r1} /\ ChunkReqs(SessionS, 1) = {r2}
         /\ r1 \in hdr[r2].after
         /\ pc[r2] = "curl" /\ pc'[r2] = "done" /\ out'[r2].status = "ok" )
       => /\ \E f \in SessionFiles(SessionS)' :
               /\ SessionFiles(SessionS)' = {f}
               /\ f.name \in DOMAIN blobs'
               /\ blobs'[f.name].bytes = OriginalS
          /\ SessionEntries(SessionS)' = {}]_vars

(* ============ batches of several files (SpecBatch) ===================== *)

\* files the validation of lines 238-246 lets through
GoodPng == File(<<"a", "png">>, <<"image", "png">>, <<1>>)
GoodText == File(<<"readme">>, <<"text", "plain">>, <<2>>)
GoodNotes == File(<<"notes">>, <<"text", "plain">>, <<1, 2>>)
\* files it stops: over the 2-byte limit, no file name, a disabled extension
TooBig == File(<<"big", "pdf">>, <<"application", "pdf">>, <<1, 2, 3>>)
NoFilename == File(EmptyName, <<"text", "plain">>, <<1>>)
DisabledExt == File(<<"x", "someext">>, <<"application", "octet-stream">>, <<1>>)

\* the batches of the model: file 2 of 3 fails, file 1 fails, all files pass
Batches ==
  {<<GoodPng, bad, GoodText>> : bad \in {TooBig, NoFilename, DisabledExt}}
    \cup {<<TooBig, GoodPng>>, <<GoodPng, GoodText>>}

ArriveBatch(r) ==
  \/ \E fs \in Batches : Arrive(r, WholeUpload("root", fs))
  \* an explicit name for every file of the batch: the second file finds the first
  \/ \E u \in Users :
       Arrive(r, [WholeUpload(u, <<GoodText, GoodNotes, GoodPng>>)
                    EXCEPT !.format = Some("foo"), !.xfilename = Some(<<"report">>)])

NextBatch ==
  \/ \E r \in 1 .. MaxReqs - 1 : ArriveBatch(r)
  \/ \E r \in Reqs : ReadUser(r)
  \/ \E r \in Reqs : Validate(r)
  \/ \E r \in Reqs : RateLimit(r)
  \/ \E r \in Reqs : FileBegin(r)
  \/ \E r \in Reqs : FileCreate(r)
  \/ \E r \in Reqs : FileSave(r)
  \/ \E r \in Reqs : FileUrl(r)
  \/ \E r \in Reqs : Cooldown(r)

SpecBatch == InitCooldown /\ [][NextBatch]_vars

\* the answers of a batch stopped at one of its files
FileFailures == {"size too big", "no filename", "disabled extension recieved",
                 "filename already exists"}
FailedBatch(r) == out[r].status = "badRequest" /\ out[r].msg \in FileFailures
\* the File Records request r created
CreatedBy(r) == {f \in files : f.req = r}

\* C11: a whole-upload batch stopped at its file i (size, file name, extension or
\* name conflict) has answered for the i-1 files before it, each of which keeps its
\* File Record and its blob under its name; the batch created no other File Record
\* (none for file i, none for the files after it) and set no cooldown.
C11_PartialBatchFailure ==
  \A r \in Reqs :
    FailedBatch(r) =>
      LET done == Len(out[r].files)
          nameOf(k) == IF IsNull(hdr[r].xfilename) THEN hdr[r].files[k].originalname
                       ELSE Val(hdr[r].xfilename)
      IN /\ done < Len(hdr[r].files)
         /\ Cardinality(CreatedBy(r)) = done
         /\ \A k \in 1 .. done :
              \E f \in CreatedBy(r) :
                /\ f.name = nameOf(k)
                /\ f.name \in DOMAIN blobs
                /\ blobs[f.name] = Raw(hdr[r].files[k].buffer)
         /\ IsNull(hdr[r].xfilename) =>
              /\ nameOf(done + 1) \notin DOMAIN blobs
              /\ \A f \in files : f.name # nameOf(done + 1)
         /\ DOMAIN blobs \subseteq {f.name : f \in files}
         /\ IsNull(out[r].cooldown)

\* a batch of three files was stopped at its second file
C11_Witness ==
  \E r \in Reqs :
    /\ FailedBatch(r)
    /\ Len(out[r].files) = 1
    /\ Len(hdr[r].files) = 3
    /\ Cardinality(CreatedBy(r)) = 1

(* ============== what a rejected request leaves behind ================== *)

\* C12: a request answered with RateLimited has no side effects: none of its steps,
\* from the reading of the user to the rejection, changes the File Records, the
\* Invisible File Mappings, any user's cooldown, the blob store or the transient
\* chunk storage.
C12_RateLimitedNoSideEffects ==
  [][\A r \in Reqs :
       /\ (pc'[r] = "done" /\ pc[r] # "done" /\ out'[r].status = "ratelimited") =>
            pc[r] = "ratelimit" /\ store' = store
       /\ (pc'[r] = "ratelimit" /\ pc[r] # "ratelimit") => pc[r] = "parse" /\ store' = store
       /\ (pc'[r] = "parse" /\ pc[r] # "parse") => pc[r] = "auth" /\ store' = store
       /\ (pc'[r] = "auth" /\ pc[r] # "auth") => pc[r] = "idle" /\ store' = store]_vars

\* a request was rejected while the stores hold a file and a cooldown
C12_Witness ==
  \E r \in Reqs :
    /\ out[r].status = "ratelimited"
    /\ files # {}
    /\ DOMAIN blobs # {}
    /\ ~IsNull(ratelimit[UserOf(r)])

(* ============ the order of the steps of one file (SpecOrder) =========== *)

\* whole uploads of two files and one-chunk sessions, with and without zws
ArriveOrder(r) ==
  \E zws \in BOOLEAN :
    \/ Arrive(r, [WholeUpload("alice", <<GoodPng, GoodText>>) EXCEPT !.zws = zws])
    \/ Arrive(r, [ChunkUpload("alice", SessionS, 0, 0, 1, <<1>>, TRUE) EXCEPT !.zws = zws])

NextOrder ==
  \/ \E r \in 1 .. MaxReqs - 1 : ArriveOrder(r)
  \/ \E r \in Reqs : ReadUser(r)
  \/ \E r \in Reqs : Validate(r)
  \/ \E r \in Reqs : RateLimit(r)
  \/ \E r \in Reqs : FileBegin(r)
  \/ \E r \in Reqs : FileCreate(r)
  \/ \E r \in Reqs : FileInvis(r)
  \/ \E r \in Reqs : FileSave(r)
  \/ \E r \in Reqs : FileUrl(r)
  \/ \E r \in Reqs : Cooldown(r)
  \/ \E r \in Reqs : WriteChunk(r)
  \/ \E r \in Reqs : ListPartials(r)
  \/ \E r \in Reqs : ReadChunk(r)
  \/ \E r \in Reqs : UnlinkChunk(r)
  \/ \E r \in Reqs : ChunkCreate(r)
  \/ \E r \in Reqs : ChunkSave(r)
  \/ \E r \in Reqs : ChunkUrl(r)

SpecOrder == InitCooldown /\ [][NextOrder]_vars

\* the Invisible File Mappings of File Record f
MappingsOf(f) == {v \in invisible : v.fileId = f.id}

\* C13: for each file of a whole upload and for the file of a final chunk, the File
\* Record is created first, then the Invisible File Mapping (if asked for), then
\* the blob is written, then the response URL is built: a step that adds a record
\* adds no mapping and no blob for it; a step that adds a mapping finds the record
\* and has the blob write ahead; a step that writes a blob finds the record (and
\* the mapping, with zws) and has built no URL for it; a step that builds the URL
\* finds record and blob; and no blob is in the store without a File Record of its
\* name.
C13_StepOrder ==
  [][/\ \A r \in Reqs :
          LET rec == Val(loc[r].file)
          IN /\ files' # files =>
                  \A f \in files' \ files :
                    /\ MappingsOf(f)' = {}
                    /\ invisible' = invisible /\ blobs' = blobs /\ out' = out
                    /\ f.req = r => pc'[r] \in {"invis", "cinvis", "save", "csave"}
             /\ (pc[r] \in {"invis", "cinvis"} /\ pc'[r] # pc[r]) =>
                  /\ rec \in files /\ rec.req = r
                  /\ invisible' \ invisible = {[invis |-> InvisCode(rec.id), fileId |-> rec.id]}
                  /\ blobs' = blobs /\ out' = out
                  /\ pc'[r] \in {"save", "csave"}
             /\ (pc[r] \in {"save", "csave"} /\ pc'[r] # pc[r]) =>
                  /\ rec \in files /\ rec.req = r
                  /\ hdr[r].zws => MappingsOf(rec) # {}
                  /\ rec.name \in DOMAIN blobs'
                  /\ out' = out
                  /\ pc'[r] \in {"url", "curl"}
             /\ out'[r].files # out[r].files =>
                  /\ rec \in files /\ rec.req = r
                  /\ rec.name \in DOMAIN blobs
                  /\ hdr[r].zws => MappingsOf(rec) # {}
                  /\ pc[r] \in {"url", "curl"}
     /\ invisible' # invisible => \E r \in Reqs : pc[r] \in {"invis", "cinvis"} /\ pc'[r] # pc[r]
     /\ blobs' # blobs => \E r \in Reqs : pc[r] \in {"save", "csave"} /\ pc'[r] # pc[r]
     /\ DOMAIN blobs' \subseteq {f.name : f \in files'}]_vars

\* the reachable state the ordering leaves open: File Records whose name has no
\* object in the blob store, one of a whole upload, one of a final chunk whose
\* mapping exists already
C13_Witness ==
  /\ \E f \in files : f.kind = "whole" /\ f.name \notin DOMAIN blobs
  /\ \E f \in files : f.kind = "chunked" /\ f.name \notin DOMAIN blobs /\ MappingsOf(f) # {}

(* ======== chunks of a user who has a cooldown (SpecChunkLimit) ========= *)

\* root sends one whole upload, the first chunk of session S any number of times
\* and its last chunk once
ArriveChunkLimit(r) ==
  \/ /\ \A q \in Reqs : ~IsWhole(q)
     /\ Arrive(r, WholeUpload("root", <<GoodPng>>))
  \/ \E n \in {0, 1} :
       /\ n = 1 => ChunkReqs(SessionS, n) = {}
       /\ Arrive(r, [ChunkOf(SessionS, OriginalS, n)
                       EXCEPT !.authorization = Some(Token("root"))])

NextChunkLimit ==
  \/ \E r \in 1 .. MaxReqs : ArriveChunkLimit(r)
  \/ \E r \in Reqs : ReadUser(r)
  \/ \E r \in Reqs : Validate(r)
  \/ \E r \in Reqs : RateLimit(r)
  \/ \E r \in Reqs : FileBegin(r)
  \/ \E r \in Reqs : FileCreate(r)
  \/ \E r \in Reqs : FileSave(r)
  \/ \E r \in Reqs : FileUrl(r)
  \/ \E r \in Reqs : Cooldown(r)
  \/ \E r \in Reqs : WriteChunk(r)
  \/ \E r \in Reqs : ListPartials(r)
  \/ \E r \in Reqs : ReadChunk(r)
  \/ \E r \in Reqs : UnlinkChunk(r)
  \/ \E r \in Reqs : ChunkCreate(r)
  \/ \E r \in Reqs : ChunkSave(r)
  \/ \E r \in Reqs : ChunkUrl(r)

SpecChunkLimit == InitCooldown /\ [][NextChunkLimit]_vars

\* C14: a chunk request that is not the last one changes only the transient chunk
\* storage, by the one entry keyed by its session identifier, start and end: it
\* adds no File Record, no Invisible File Mapping and no blob. No chunk request,
\* last or not, goes through the rate-limit check or the cooldown update: it is
\* never answered RateLimited and none of its steps changes a user's cooldown.
C14_ChunkOnlyTransient ==
  [][\A r \in Reqs :
       (IsChunked(r) /\ pc'[r] # pc[r]) =>
         /\ ratelimit' = ratelimit
         /\ pc'[r] \notin {"ratelimit", "cooldown"}
         /\ out'[r].status # "ratelimited"
         /\ ~hdr[r].lastchunk =>
              /\ files' = files /\ nextId' = nextId
              /\ invisible' = invisible
              /\ blobs' = blobs
              /\ \/ tmp' = tmp
                 \/ \E x \in DOMAIN tmp' :
                      /\ tmp' = Put(tmp, x, hdr[r].files[1].buffer)
                      /\ StartsWith(x, PartialPrefix(hdr[r].identifier))
                      /\ ReadChunkOf(x).start = Some(Val(hdr[r].contentRange).start)
                      /\ ReadChunkOf(x).end = Some(Val(hdr[r].contentRange).end)
              /\ pc'[r] = "done" => out'[r].status \in {"ack", "error", "badRequest", "forbidden"}]_vars

\* while root's cooldown is running, a chunk that is not the last one was written
\* and acknowledged and a last chunk was assembled
C14_Witness ==
  /\ ~IsNull(ratelimit["root"]) /\ now < Val(ratelimit["root"])
  /\ \E r1, r2 \in Reqs :
       /\ IsChunked(r1) /\ ~hdr[r1].lastchunk /\ out[r1].status = "ack"
       /\ IsChunked(r2) /\ hdr[r2].lastchunk /\ out[r2].status = "ok"
       /\ ~IsNull(ratelimit["root"])
  /\ \E f \in files : f.kind = "chunked"

(* ============ image compression in both paths (SpecCompress) =========== *)

\* the one-chunk session of an image or a text file
OneChunk(filename, mimetype) ==
  [ChunkUpload("alice", SessionS, 0, 0, 1, <<1>>, TRUE)
     EXCEPT !.partialFilename = filename, !.partialMimetype = mimetype]

ArriveCompress(r) ==
  \E percent \in {Null, Some("50")} :
    \/ \E f \in {GoodPng, GoodText} :
         Arrive(r, [WholeUpload("alice", <<f>>) EXCEPT !.compression = percent])
    \/ \E f \in {GoodPng, GoodText} :
         Arrive(r, [OneChunk(<<"c">> \o Tail(f.originalname), f.mimetype)
                      EXCEPT !.compression = percent])

NextCompress ==
  \/ \E r \in 1 .. MaxReqs - 1 : ArriveCompress(r)
  \/ \E r \in Reqs : ReadUser(r)
  \/ \E r \in Reqs : Validate(r)
  \/ \E r \in Reqs : RateLimit(r)
  \/ \E r \in Reqs : FileBegin(r)
  \/ \E r \in Reqs : FileCreate(r)
  \/ \E r \in Reqs : FileSave(r)
  \/ \E r \in Reqs : FileUrl(r)
  \/ \E r \in Reqs : Cooldown(r)
  \/ \E r \in Reqs : WriteChunk(r)
  \/ \E r \in Reqs : ListPartials(r)
  \/ \E r \in Reqs : ReadChunk(r)
  \/ \E r \in Reqs : UnlinkChunk(r)
  \/ \E r \in Reqs : ChunkCreate(r)
  \/ \E r \in Reqs : ChunkSave(r)
  \/ \E r \in Reqs : ChunkUrl(r)

SpecCompress == InitCooldown /\ [][NextCompress]_vars

\* what request r uploaded: the name, the mimetype and the bytes it sent
SentName(r) == IF IsChunked(r) THEN hdr[r].partialFilename ELSE hdr[r].files[1].originalname
SentMimetype(r) == IF IsChunked(r) THEN hdr[r].partialMimetype ELSE hdr[r].files[1].mimetype
SentBytes(r) == hdr[r].files[1].buffer

\* C15: in the whole-upload path and in the final-chunk path alike, when an upload
\* with a compression percent in [0,100] and an image/ mimetype has been answered,
\* its blob holds the transcoded bytes and its File Record has mimetype image/jpeg
\* and extension jpg; any other upload keeps its bytes, mimetype and extension.
C15_SameCompression ==
  \A r \in Reqs :
    out[r].status = "ok" =>
      \A f \in CreatedBy(r) :
        LET percent == OptNumber(hdr[r].compression)
        IN IF ~IsNull(percent) /\ Val(percent).v >= 0 /\ Val(percent).v <= 100
                /\ IsImage(SentMimetype(r))
             THEN /\ blobs[f.name] = Jpeg(SentBytes(r), Val(percent).v)
                  /\ f.mimetype = <<"image", "jpeg">>
                  /\ f.name[Len(f.name)] = "jpg"
             ELSE /\ blobs[f.name] = Raw(SentBytes(r))
                  /\ f.mimetype = SentMimetype(r)
                  /\ ExtOf(f.name) = ExtOf(SentName(r))

(* ============ concurrent requests of one session ======================= *)

\* the entries request r has listed and is reassembling
ListedBy(r) ==
  IF pc[r] \in {"readChunk", "unlinkChunk"}
    THEN {loc[r].readChunks[k].filename : k \in 1 .. Len(loc[r].readChunks)}
    ELSE {}

\* C16: the reassembly of a session is serialized: with only requests of session S
\* in the run, whichever of them run concurrently, no transient entry is listed by
\* two reassemblies, no reassembly fails on an entry that is gone, and the session
\* has at most one File Record.
C16_SerializedReassembly ==
  (\A r \in Reqs : pc[r] # "idle" => hdr[r].identifier = SessionS)
  => /\ \A r1, r2 \in Reqs : r1 # r2 => ListedBy(r1) \cap ListedBy(r2) = {}
     /\ \A r \in Reqs : ~(out[r].status = "error" /\ out[r].msg = "ENOENT")
     /\ Cardinality(SessionFiles(SessionS)) <= 1

(* ============ the cooldown against concurrent batches ================== *)

\* C17: a step clears a user's cooldown only when the cooldown in the store has
\* expired at that moment, and no step lowers a cooldown: once a batch has set the
\* cooldown to T, no request that read the user earlier clears or lowers it before T.
C17_CooldownAtomic ==
  [][\A u \in Users :
       ~IsNull(ratelimit[u]) =>
         /\ IsNull(ratelimit'[u]) => now >= Val(ratelimit[u])
         /\ ~IsNull(ratelimit'[u]) => Val(ratelimit'[u]) >= Val(ratelimit[u])]_vars

(* ============ deleting records and blobs =============================== *)

\* C18: in both DELETE modes the blob goes before or together with its record: a
\* step of a DELETE request that removes File Records leaves no blob under the
\* name of a removed record.
C18_BlobBeforeRecord ==
  [][\A r \in Reqs :
       (hdr[r].endpoint = "files" /\ hdr[r].method = "DELETE" /\ pc'[r] # pc[r]) =>
         \A f \in files \ files' : f.name \notin DOMAIN blobs']_vars

\* the entry names chunks 0 and 1 of a session are written under
OwnEntries(identifier) == {TempFile(identifier, n, n) : n \in {0, 1}}

\* C19: chunk sessions are isolated: the entries a final chunk of session S has
\* listed for reassembly are entries written for session S, each with the start it
\* was written with, whatever other session (one whose identifier S is a prefix of
\* included) has entries in the transient storage.
C19_SessionsIsolated ==
  \A r \in Reqs :
    pc[r] \in {"readChunk", "unlinkChunk"} =>
      \A k \in 1 .. Len(loc[r].readChunks) :
        \E n \in {0, 1} :
          /\ loc[r].readChunks[k].filename = TempFile(hdr[r].identifier, n, n)
          /\ loc[r].readChunks[k].start = Some(n)

\* C20: when only uploads and DELETE requests of alice have arrived and all have
\* been answered, the objects of the blob store are the backing objects of the
\* File Records: no blob without a record and no record without a blob.
C20_NoOrphansAtQuiescence ==
  ( /\ \A r \in Reqs : pc[r] \in {"idle", "done"}
    /\ \A r \in Reqs :
         pc[r] = "done" =>
           \/ IsWhole(r) /\ UserOf(r) = "alice"
           \/ hdr[r].endpoint = "files" /\ hdr[r].method = "DELETE" /\ hdr[r].user = "alice" )
  => DOMAIN blobs = {f.name : f \in files}

====
